---- MODULE Spec2Model ----
(***************************************************************************)
(* certdx client: the per-certificate watch loop, the polling daemon       *)
(* (HttpMain / certWatchDog / requestCert) and the streaming daemon        *)
(* (GRPCMain, CertDXgRPCClient.Stream, handleCert).                        *)
(*                                                                         *)
(* Byte strings are sequences of small numbers, durations are minutes.     *)
(***************************************************************************)
EXTENDS Integers, Sequences, FiniteSets, TLC

\* ---------------------------------------------------------------- bounds
\* r.Config.Server.RetryCount in the three configurations
HttpRetry == 1
GrpcRetry == 2
FailoverRetry == 2
\* the first MaxApplied items a watcher takes are recorded in `applied`
MaxApplied == 2
\* streams opened in one run, over both servers
MaxStreams == 2
\* standby loops alive at once
MaxStandby == 2
\* one server, two certificates: streams the server accepts, responses it sends
GrpcOpens == 1
GrpcResp == 2
GrpcBreaks == 1
\* main and standby server, one certificate: streams each server accepts,
\* responses each server sends
FailoverOpens == 1
FailoverResp == 1
\* one server, two certificates, the responses the server has sent in a fixed
\* order: how many of them
StalledResp == 4

\* ------------------------------------------------------------- constants
\* sleepTime := 1 * time.Hour, in minutes
DefaultSleep == 60

AllCerts == {"A", "B"}
Blobs == {<<1>>, <<2>>}
NoBytes == << >>
\* certData without the domains: the full chain and the key
Material == [chain : Blobs \cup {NoBytes, <<9>>}, key : Blobs \cup {NoBytes, <<9>>}]
NoMaterial == [chain |-> NoBytes, key |-> NoBytes]
\* material a server hands out
Issued == [chain : Blobs, key : Blobs]
\* resp.RenewTimeLeft, in minutes
RenewTimes == {240, 480}
\* c.UpdateHandlers as init() builds it
UpdateHandlers == <<"writeCertAndDoCommand">>

VARIABLES
    mode,        \* "http" (HttpMain) or "grpc" (GRPCMain)
    certs,       \* r.certs: the configured certificate names, in order
    standby,     \* a standby server is configured
    RetryCount,  \* r.Config.Server.RetryCount
    Data,        \* watchingCert.Data (Fullchain, Key)
    UpdateChan,  \* watchingCert.UpdateChan, a channel of capacity 1
    Stop,        \* watchingCert.Stop has been closed
    watchPc,     \* the watch goroutine: "run" or "done"
    calls,       \* the handler calls made for the item watch took last
    applied,     \* per item taken by watch, whether the handlers ran
    wd,          \* the certWatchDog goroutine of each certificate
    dPc,         \* the daemon's own goroutine (HttpMain / GRPCMain)
    Kill,        \* CertDXgRPCClient.Kill of each client: tokens in a channel of capacity 1
    killCh,      \* the channel kill of GRPCMain, capacity 1
    Running,     \* CertDXgRPCClient.Running of each client
    loops,       \* the stream loops of GRPCMain: 0 is the main loop, the others standby loops
    fwd,         \* the goroutines standByClient.Kill <- <-*mainClient.Received.Load(), by position
    streams,     \* one entry per Stream call that opened a stream
    env          \* what the servers, the network and the operator will still do

cfgVars == <<mode, certs, standby, RetryCount>>
certVars == <<Data, UpdateChan, Stop, watchPc, calls, applied>>
pollVars == <<wd>>
daemonVars == <<dPc>>
grpcVars == <<Kill, killCh, Running, loops, fwd, streams, env>>
vars == <<cfgVars, certVars, pollVars, daemonVars, grpcVars>>

Range(s) == {s[i] : i \in 1..Len(s)}
Configured == Range(certs)

\* ------------------------------------------------------ watchingCert.watch
\* bytes.Equal
BytesEqual(a, b) ==
    /\ Len(a) = Len(b)
    /\ \A i \in 1..Len(a) : a[i] = b[i]

\* the comparison with the key left out
ChangedChainOnly(old, new) == ~BytesEqual(old.chain, new.chain)

\* the comparison with the negation of the key test dropped
ChangedKeyInverted(old, new) ==
    \/ ~BytesEqual(old.chain, new.chain)
    \/ BytesEqual(old.key, new.key)

\* the condition of line 47
Changed(old, new) ==
    \/ ~BytesEqual(old.chain, new.chain)
    \/ ~BytesEqual(old.key, new.key)

\* for _, handleFunc := range c.UpdateHandlers { handleFunc(Fullchain, Key, ..) }
Notify(hs, d) ==
    [i \in 1..Len(hs) |-> [handler |-> hs[i], chain |-> d.chain, key |-> d.key]]

Record(log, b) == IF Len(log) < MaxApplied THEN Append(log, b) ELSE log

\* case newCert := <-c.UpdateChan
WatchUpdate(c) ==
    /\ watchPc[c] = "run"
    /\ UpdateChan[c] # << >>
    /\ LET newCert == Head(UpdateChan[c])
           ch == Changed(Data[c], newCert)
       IN  /\ UpdateChan' = [UpdateChan EXCEPT ![c] = Tail(@)]
           /\ Data' = [Data EXCEPT ![c] = IF ch THEN newCert ELSE @]
           /\ calls' = [calls EXCEPT ![c] =
                           IF ch THEN Notify(UpdateHandlers, newCert) ELSE << >>]
           /\ applied' = [applied EXCEPT ![c] = Record(@, ch)]
    /\ UNCHANGED <<Stop, watchPc, cfgVars, pollVars, daemonVars, grpcVars>>

\* case <-*c.Stop.Load(): return
WatchStop(c) ==
    /\ watchPc[c] = "run"
    /\ Stop[c]
    /\ watchPc' = [watchPc EXCEPT ![c] = "done"]
    /\ UNCHANGED <<Data, UpdateChan, Stop, calls, applied, cfgVars, pollVars, daemonVars, grpcVars>>

\* cert.UpdateChan <- certData{...}: possible when the buffer has room
CanPush(c) == Len(UpdateChan[c]) < 1
Pushed(c, m) == [UpdateChan EXCEPT ![c] = Append(@, m)]

\* ------------------------------------------------------------ utils.Retry
\* the helper runs the operation up to N+1 times for a budget of N
Attempts(n) == n + 1

\* ------------------------------------- requestCert and certWatchDog (http)
\* what one GetCert call can give: a transport error, a response that
\* carries an error string, or a response with material
GetCertResults ==
    {[kind |-> "fail"], [kind |-> "srvErr"]}
    \cup [kind : {"ok"}, mat : Issued, renew : RenewTimes]

\* sleepTime = resp.RenewTimeLeft / 4
NextSleep(old, resp) == resp.renew \div 4

\* a cycle without a usable response leaves sleepTime as it was
FailedSleep(old) == old

\* the standby asked whether or not one is configured
AnyServer(w) == TRUE

\* the standby is asked when the main server's retries are used up and
\* r.Config.Http.StandbyServer.Url != ""
GoStandby(w) == w.pc = "main" /\ standby

\* one GetCert call of requestCert, with what certWatchDog does with the
\* value requestCert returns
PollAttempt(c) ==
    /\ mode = "http"
    /\ wd[c].pc \in {"main", "standby"}
    /\ \E r \in GetCertResults :
        LET w == wd[c]
            onMain == w.pc = "main"
            tried == [w EXCEPT !.mainTries = IF onMain THEN @ + 1 ELSE @,
                               !.sbTries = IF onMain THEN @ ELSE @ + 1]
            used == IF onMain THEN tried.mainTries ELSE tried.sbTries
        IN  IF r.kind = "fail"
            THEN IF used < Attempts(RetryCount)
                 THEN wd' = [wd EXCEPT ![c] = tried]
                 ELSE IF GoStandby(w)
                      THEN wd' = [wd EXCEPT ![c] = [tried EXCEPT !.pc = "standby"]]
                      ELSE wd' = [wd EXCEPT ![c] =
                                     [tried EXCEPT !.pc = "sleep",
                                                   !.outcome = "failed",
                                                   !.sleepTime = FailedSleep(@)]]
            ELSE IF r.kind = "srvErr"
                 THEN wd' = [wd EXCEPT ![c] =
                                [tried EXCEPT !.pc = "sleep",
                                              !.outcome = "srvErr",
                                              !.sleepTime = FailedSleep(@)]]
                 ELSE wd' = [wd EXCEPT ![c] =
                                [tried EXCEPT !.pc = "push",
                                              !.outcome = "ok",
                                              !.resp = r.mat,
                                              !.lastRenew = r.renew,
                                              !.sleepTime = NextSleep(@, r)]]
    /\ UNCHANGED <<cfgVars, certVars, daemonVars, grpcVars>>

\* cert.UpdateChan <- certData{...} of certWatchDog
PollPush(c) ==
    /\ mode = "http"
    /\ wd[c].pc = "push"
    /\ CanPush(c)
    /\ UpdateChan' = Pushed(c, wd[c].resp)
    /\ wd' = [wd EXCEPT ![c].pc = "sleep"]
    /\ UNCHANGED <<Data, Stop, watchPc, calls, applied, cfgVars, daemonVars, grpcVars>>

\* case <-t: the next cycle starts. sleepTime is positive, so a select that
\* finds the stop signal closed already does not find the timer run out
PollWake(c) ==
    /\ mode = "http"
    /\ wd[c].pc = "sleep"
    /\ ~Stop[c]
    /\ wd' = [wd EXCEPT ![c].pc = "main", ![c].mainTries = 0, ![c].sbTries = 0,
                        ![c].outcome = "none"]
    /\ UNCHANGED <<cfgVars, certVars, daemonVars, grpcVars>>

\* case <-*cert.Stop.Load(): return
PollStop(c) ==
    /\ mode = "http"
    /\ wd[c].pc = "sleep"
    /\ Stop[c]
    /\ wd' = [wd EXCEPT ![c].pc = "done"]
    /\ UNCHANGED <<cfgVars, certVars, daemonVars, grpcVars>>

\* ------------------------------------------------ the daemon's own goroutine
\* r.stop(): close(*c.Stop.Load()) for every certificate
AllStopped == [c \in AllCerts |-> IF c \in Configured THEN TRUE ELSE Stop[c]]

\* HttpMain: <-stop (the first SIGINT / SIGTERM), r.stop(), up to r.wg.Wait()
HttpSignal ==
    /\ mode = "http"
    /\ dPc = "waitSignal"
    /\ env.signal > 0
    /\ Stop' = AllStopped
    /\ dPc' = "wait"
    /\ UNCHANGED <<Data, UpdateChan, watchPc, calls, applied, cfgVars, pollVars, grpcVars>>

\* r.wg.Wait() returns when the watchers and the polling loops are done
HttpExit ==
    /\ mode = "http"
    /\ dPc = "wait"
    /\ \A c \in Configured : watchPc[c] = "done" /\ wd[c].pc = "done"
    /\ dPc' = "exit"
    /\ UNCHANGED <<cfgVars, certVars, pollVars, grpcVars>>

\* -------------------------------------------------- streaming: data types
Clients == {"main", "standby"}
Loops == 0..MaxStandby
StandbyLoops == 1..MaxStandby
StreamIds == 1..MaxStreams
ClientOf(l) == IF l = 0 THEN "main" ELSE "standby"

\* a certificate name no certificate is configured under
Unknown == "X"
Versions == {"v1", "v2"}
\* the material of a response that names an unknown certificate
StrayMaterial == [chain |-> <<9>>, key |-> <<9>>]
\* the material discovery responses carry
StreamIssued == {[chain |-> <<1>>, key |-> <<1>>], [chain |-> <<1>>, key |-> <<2>>]}

\* what stream.Recv() can deliver: a secret with a TLS certificate for a
\* configured name, a secret of another type, a secret under an unknown
\* name, a resource that does not unmarshal
Responses ==
    [kind : {"tls"}, name : Configured, ver : Versions, mat : StreamIssued]
    \cup [kind : {"other"}, name : Configured, ver : {"v1"}, mat : {NoMaterial}]
    \cup {[kind |-> "tls", name |-> Unknown, ver |-> "v1", mat |-> StrayMaterial],
          [kind |-> "garbage", name |-> Unknown, ver |-> "v1", mat |-> NoMaterial]}

\* the one response a server sends that does nothing unexpected
PlainResponses ==
    [kind : {"tls"}, name : Configured, ver : {"v1"}, mat : {[chain |-> <<1>>, key |-> <<1>>]}]

NoResp == [kind |-> "none", name |-> Unknown, ver |-> "", mat |-> NoMaterial]
IdleHandler == [pc |-> "none", ver |-> "", mat |-> NoMaterial]
NoStream ==
    [state |-> "none", client |-> "main", loop |-> 0, ctxDone |-> FALSE,
     rcv |-> "none", resp |-> NoResp, stray |-> FALSE,
     snd |-> "none", sent |-> << >>,
     hnd |-> [c \in AllCerts |-> IdleHandler],
     got |-> [c \in AllCerts |-> << >>]]
\* attempt tells how the Stream call stands to startTime: "first" when
\* startTime was taken right before it, and once its failure is handled
\* "quick" or "slow" as that came before or after 5 minutes of the call
NoLoop == [pc |-> "none", retryCount |-> 0, err |-> "none", s |-> 0,
           expired |-> FALSE, fired |-> FALSE, attempt |-> "first"]

Opened == {s \in StreamIds : streams[s].state # "none"}
ErrPcs == {"errRecv", "errUnmarshal", "errCert", "errSend", "errAck", "errType"}

\* startTime := time.Now(): the main loop takes it before every call of
\* Stream, a standby loop once, before its loop
Started(l, lp) ==
    IF l = 0 THEN [lp EXCEPT !.expired = FALSE, !.attempt = "first"] ELSE lp

\* ----------------------------------------------- CertDXgRPCClient.Stream
\* the check at the start of Stream left out
KillIgnored(k) == FALSE

\* select { case <-c.Kill: return &killed{} default: } at the start of Stream
KillPending(k) == Kill[k] > 0

\* Stream up to the final select. A kill that is already pending ends the
\* call at once. Otherwise Running is set and one of three things follows:
\* grpc.NewClient rejects the configured target and Stream returns before
\* its defer is installed; StreamSecrets fails and the deferred conn.Close(),
\* Running.Store(false) run; or the stream opens, the dispatch map, ack and
\* errChan are made and the handlers, the receiver and the sender are started.
StreamEnter(l) ==
    /\ mode = "grpc"
    /\ loops[l].pc = "call"
    /\ LET k == ClientOf(l)
           s == Cardinality(Opened) + 1
           lp == Started(l, loops[l])
       IN  IF KillPending(k)
           THEN /\ Kill' = [Kill EXCEPT ![k] = @ - 1]
                /\ loops' = [loops EXCEPT ![l] = [lp EXCEPT !.pc = "handle", !.err = "killed"]]
                /\ UNCHANGED <<Running, streams, env>>
           ELSE /\ UNCHANGED Kill
                /\ \/ /\ env.badTarget[k]
                      /\ Running' = [Running EXCEPT ![k] = TRUE]
                      /\ loops' = [loops EXCEPT ![l] = [lp EXCEPT !.pc = "handle", !.err = "errDial"]]
                      /\ UNCHANGED <<streams, env>>
                   \/ /\ ~env.badTarget[k]
                      /\ Running' = [Running EXCEPT ![k] = FALSE]
                      /\ loops' = [loops EXCEPT ![l] = [lp EXCEPT !.pc = "handle", !.err = "errOpen"]]
                      /\ UNCHANGED <<streams, env>>
                   \/ /\ ~env.badTarget[k]
                      /\ env.opens[k] > 0
                      /\ s <= MaxStreams
                      /\ env' = [env EXCEPT !.opens[k] = @ - 1]
                      /\ Running' = [Running EXCEPT ![k] = TRUE]
                      /\ streams' = [streams EXCEPT ![s] =
                             [NoStream EXCEPT !.state = "open", !.client = k, !.loop = l,
                                              !.rcv = "top", !.snd = "init",
                                              !.hnd = [c \in AllCerts |->
                                                  IF c \in Configured
                                                  THEN [IdleHandler EXCEPT !.pc = "select"]
                                                  ELSE IdleHandler]]]
                      /\ loops' = [loops EXCEPT ![l] = [lp EXCEPT !.pc = "inStream", !.s = s]]
    /\ UNCHANGED <<killCh, fwd, cfgVars, certVars, pollVars, daemonVars>>

\* the end of Stream: the result goes to the loop, and the deferred
\* conn.Close() (which ends the stream context) and Running.Store(false) run
Returned(l, res) ==
    /\ loops' = [loops EXCEPT ![l].pc = "handle", ![l].err = res]
    /\ Running' = [Running EXCEPT ![ClientOf(l)] = FALSE]

\* the logs of what went over the stream are dropped with the connection
Closed(st) ==
    [st EXCEPT !.state = "returned", !.ctxDone = TRUE, !.sent = << >>,
               !.got = [c \in AllCerts |-> << >>]]

\* case <-ctx.Done(): return ctx.Err()
StreamCtxDone(l) ==
    /\ mode = "grpc"
    /\ loops[l].pc = "inStream"
    /\ streams[loops[l].s].ctxDone
    /\ streams' = [streams EXCEPT ![loops[l].s] = Closed(@)]
    /\ Returned(l, "ctx")
    /\ UNCHANGED <<Kill, killCh, fwd, env, cfgVars, certVars, pollVars, daemonVars>>

\* case err := <-errChan, the sender on errChan being the receiver goroutine
StreamErrRcv(l) ==
    /\ mode = "grpc"
    /\ loops[l].pc = "inStream"
    /\ LET s == loops[l].s
       IN  /\ streams[s].rcv \in ErrPcs
           /\ streams' = [streams EXCEPT ![s] = [Closed(@) EXCEPT !.rcv = "done"]]
           /\ Returned(l, streams[s].rcv)
    /\ UNCHANGED <<Kill, killCh, fwd, env, cfgVars, certVars, pollVars, daemonVars>>

\* case err := <-errChan, the sender on errChan being the sending goroutine
StreamErrSnd(l) ==
    /\ mode = "grpc"
    /\ loops[l].pc = "inStream"
    /\ LET s == loops[l].s
       IN  /\ streams[s].snd \in ErrPcs
           /\ streams' = [streams EXCEPT ![s] = [Closed(@) EXCEPT !.snd = "done"]]
           /\ Returned(l, streams[s].snd)
    /\ UNCHANGED <<Kill, killCh, fwd, env, cfgVars, certVars, pollVars, daemonVars>>

\* case err := <-errChan, the sender on errChan being a handleCert goroutine
StreamErrHnd(l, c) ==
    /\ mode = "grpc"
    /\ loops[l].pc = "inStream"
    /\ LET s == loops[l].s
       IN  /\ streams[s].hnd[c].pc \in ErrPcs
           /\ streams' = [streams EXCEPT ![s] =
                  [Closed(@) EXCEPT !.hnd[c] = [IdleHandler EXCEPT !.pc = "done"]]]
           /\ Returned(l, streams[s].hnd[c].pc)
    /\ UNCHANGED <<Kill, killCh, fwd, env, cfgVars, certVars, pollVars, daemonVars>>

\* case <-c.Kill: return &killed{}
StreamKilled(l) ==
    /\ mode = "grpc"
    /\ loops[l].pc = "inStream"
    /\ Kill[ClientOf(l)] > 0
    /\ Kill' = [Kill EXCEPT ![ClientOf(l)] = @ - 1]
    /\ streams' = [streams EXCEPT ![loops[l].s] = Closed(@)]
    /\ Returned(l, "killed")
    /\ UNCHANGED <<killCh, fwd, env, cfgVars, certVars, pollVars, daemonVars>>

\* the peer closes the stream or the connection fails: the stream context ends
StreamBreak(s) ==
    /\ mode = "grpc"
    /\ streams[s].state = "open"
    /\ ~streams[s].ctxDone
    /\ env.breaks > 0
    /\ env' = [env EXCEPT !.breaks = @ - 1]
    /\ streams' = [streams EXCEPT ![s].ctxDone = TRUE]
    /\ UNCHANGED <<Kill, killCh, Running, loops, fwd,
                   cfgVars, certVars, pollVars, daemonVars>>

\* ------------------------------------------------ the receiving goroutine
\* select { case <-ctx.Done(): return default: } at the top of the loop
RcvTop(s) ==
    /\ mode = "grpc"
    /\ streams[s].rcv = "top"
    /\ streams' = [streams EXCEPT ![s].rcv = IF streams[s].ctxDone THEN "done" ELSE "recv"]
    /\ UNCHANGED <<Kill, killCh, Running, loops, fwd, env,
                   cfgVars, certVars, pollVars, daemonVars>>

\* stream.Recv() returns an error once the stream context has ended
RcvFails(s) ==
    /\ mode = "grpc"
    /\ streams[s].rcv = "recv"
    /\ streams[s].ctxDone
    /\ streams' = [streams EXCEPT ![s].rcv = "errRecv"]
    /\ UNCHANGED <<Kill, killCh, Running, loops, fwd, env,
                   cfgVars, certVars, pollVars, daemonVars>>

\* an unknown name routed to the first certificate
LookupFirst(name) == IF name \in Configured THEN name ELSE certs[1]

\* respChan, ok := dispatch[secretResp.Name]: the name found, or "" for !ok
Lookup(name) == IF name \in Configured THEN name ELSE ""

\* close(*c.Received.Swap(&newReceived)): the goroutines waiting on the old
\* channel of the main client can go on, and every standby loop has seen the
\* main client's signal fire
Swapped(client, f) ==
    IF client = "main"
    THEN [f EXCEPT !.wait = 0, !.send = f.send + f.wait]
    ELSE f
Fired(client, ls) ==
    IF client = "main"
    THEN [l \in Loops |-> IF l # 0 /\ ls[l].pc \notin {"none", "done"}
                          THEN [ls[l] EXCEPT !.fired = TRUE] ELSE ls[l]]
    ELSE ls

\* the server sends what its script says, when it has one
Scripted(k, r) ==
    IF env.script = << >> THEN TRUE
    ELSE r.name = env.script[Len(env.script) - env.resp[k] + 1]

\* resp, err := stream.Recv() with a response, up to the send on errChan or
\* on the certificate's dispatch channel
RcvMsg(s) ==
    /\ mode = "grpc"
    /\ streams[s].rcv = "recv"
    /\ ~streams[s].ctxDone
    /\ env.resp[streams[s].client] > 0
    /\ \E r \in (IF env.plain THEN PlainResponses ELSE Responses) :
        /\ Scripted(streams[s].client, r)
        /\ env' = [env EXCEPT !.resp[streams[s].client] = @ - 1]
        /\ fwd' = Swapped(streams[s].client, fwd)
        /\ loops' = Fired(streams[s].client, loops)
        /\ streams' = [streams EXCEPT ![s] =
              IF r.kind = "garbage"
              THEN [@ EXCEPT !.rcv = "errUnmarshal"]
              ELSE IF Lookup(r.name) = ""
                   THEN [@ EXCEPT !.rcv = "errCert", !.stray = TRUE]
                   ELSE [@ EXCEPT !.rcv = "dispatch",
                                  !.resp = [r EXCEPT !.name = Lookup(r.name)],
                                  !.stray = (r.name \notin Configured),
                                  !.got[Lookup(r.name)] = Append(@, [ver |-> r.ver, mat |-> r.mat])]]
    /\ UNCHANGED <<Kill, killCh, Running, cfgVars, certVars, pollVars, daemonVars>>

\* ----------------------------------------------------------- handleCert
\* respChan <- respData{...} meets case _respData := <-resp; the handler
\* checks the secret's type
Dispatch(s, c) ==
    /\ mode = "grpc"
    /\ streams[s].rcv = "dispatch"
    /\ streams[s].resp.name = c
    /\ streams[s].hnd[c].pc = "select"
    /\ LET r == streams[s].resp
       IN  streams' = [streams EXCEPT
               ![s].rcv = "top",
               ![s].resp = NoResp,
               ![s].hnd[c] = IF r.kind = "tls"
                             THEN [pc |-> "push", ver |-> r.ver, mat |-> r.mat]
                             ELSE [IdleHandler EXCEPT !.pc = "errType"]]
    /\ UNCHANGED <<Kill, killCh, Running, loops, fwd, env,
                   cfgVars, certVars, pollVars, daemonVars>>

\* case <-ctx.Done(): return
HndCtxDone(s, c) ==
    /\ mode = "grpc"
    /\ streams[s].hnd[c].pc = "select"
    /\ streams[s].ctxDone
    /\ streams' = [streams EXCEPT ![s].hnd[c].pc = "done"]
    /\ UNCHANGED <<Kill, killCh, Running, loops, fwd, env,
                   cfgVars, certVars, pollVars, daemonVars>>

\* cert.UpdateChan <- certData{...} of handleCert
HndPush(s, c) ==
    /\ mode = "grpc"
    /\ streams[s].hnd[c].pc = "push"
    /\ CanPush(c)
    /\ UpdateChan' = Pushed(c, streams[s].hnd[c].mat)
    /\ streams' = [streams EXCEPT ![s].hnd[c].pc = "ack", ![s].hnd[c].mat = NoMaterial]
    /\ UNCHANGED <<Data, Stop, watchPc, calls, applied, Kill, killCh, Running, loops, fwd,
                   env, cfgVars, pollVars, daemonVars>>

\* an acknowledgment that always names the first certificate
AckFirstCert(c, h) == [names |-> <<certs[1]>>, ver |-> h.ver, node |-> FALSE]

\* &discoveryv3.DiscoveryRequest{VersionInfo: _respData.Version,
\*                               ResourceNames: []string{cert.Config.Name}}
AckRequest(c, h) == [names |-> <<c>>, ver |-> h.ver, node |-> FALSE]

\* ack <- ... meets case a := <-ack of the sender, which calls stream.Send(a);
\* Send fails once the stream context has ended
AckSend(s, c) ==
    /\ mode = "grpc"
    /\ streams[s].hnd[c].pc = "ack"
    /\ streams[s].snd = "loop"
    /\ streams' = [streams EXCEPT
           ![s].hnd[c] = [IdleHandler EXCEPT !.pc = "select"],
           ![s].snd = IF streams[s].ctxDone THEN "errAck" ELSE "loop",
           ![s].sent = IF streams[s].ctxDone THEN @
                       ELSE Append(@, AckRequest(c, streams[s].hnd[c]))]
    /\ UNCHANGED <<Kill, killCh, Running, loops, fwd, env,
                   cfgVars, certVars, pollVars, daemonVars>>

\* --------------------------------------------------- the sending goroutine
\* the initial request naming the first certificate only
InitialFirstOnly == [names |-> <<certs[1]>>, ver |-> "", node |-> TRUE]

\* packReq: ResourceNames are the configured names, Node.Metadata the domains
InitialRequest == [names |-> certs, ver |-> "", node |-> TRUE]

\* err = stream.Send(packReq)
SndInit(s) ==
    /\ mode = "grpc"
    /\ streams[s].snd = "init"
    /\ streams' = [streams EXCEPT
           ![s].snd = IF streams[s].ctxDone THEN "errSend" ELSE "loop",
           ![s].sent = IF streams[s].ctxDone THEN @ ELSE Append(@, InitialRequest)]
    /\ UNCHANGED <<Kill, killCh, Running, loops, fwd, env,
                   cfgVars, certVars, pollVars, daemonVars>>

\* case <-ctx.Done(): return
SndCtxDone(s) ==
    /\ mode = "grpc"
    /\ streams[s].snd = "loop"
    /\ streams[s].ctxDone
    /\ streams' = [streams EXCEPT ![s].snd = "done"]
    /\ UNCHANGED <<Kill, killCh, Running, loops, fwd, env,
                   cfgVars, certVars, pollVars, daemonVars>>

\* ------------------------------------------------- GRPCMain: the main loop
Free == {i \in StandbyLoops : i <= env.slots /\ loops[i].pc \in {"none", "done"}}
FirstFree == CHOOSE i \in Free : \A j \in Free : i <= j

\* the killed result treated like any other error
KilledRetries(lp) == [lp EXCEPT !.pc = "sleep15", !.err = "none", !.s = 0]

\* if _, ok := err.(*killed); ok { return }
AfterKilled(lp) == [lp EXCEPT !.pc = "done", !.err = "none", !.s = 0]

\* the handling of an error with the 15 s sleep left out
SkipsBackoff(lp, within) ==
    IF ~within
    THEN [lp EXCEPT !.retryCount = 0, !.pc = "call", !.err = "none", !.s = 0,
                    !.expired = TRUE]
    ELSE IF lp.retryCount + 1 < RetryCount
         THEN [lp EXCEPT !.retryCount = @ + 1, !.pc = "call", !.err = "none", !.s = 0,
                         !.expired = FALSE]
         ELSE [lp EXCEPT !.retryCount = 0, !.pc = "exhausted", !.err = "none", !.s = 0,
                         !.expired = FALSE]

\* the handling of an error with the failure counted whatever the time
WindowIgnored(lp, within) ==
    IF lp.retryCount + 1 < RetryCount
    THEN [lp EXCEPT !.retryCount = @ + 1, !.pc = "sleep15", !.err = "none", !.s = 0,
                    !.expired = ~within]
    ELSE [lp EXCEPT !.retryCount = 0, !.pc = "exhausted", !.err = "none", !.s = 0,
                    !.expired = ~within]

\* lines 227-239 (and 252-262 of the standby loop): within the 5 minute
\* window the failure counts, and below the budget the loop sleeps 15 s;
\* past the window the counter is reset and the loop goes round at once.
\* expired keeps what time.Now().Before(startTime.Add(5 * time.Minute)) gave
AfterError(lp, within) ==
    IF ~within
    THEN [lp EXCEPT !.retryCount = 0, !.pc = "call", !.err = "none", !.s = 0,
                    !.expired = TRUE, !.attempt = "slow"]
    ELSE IF lp.retryCount + 1 < RetryCount
         THEN [lp EXCEPT !.retryCount = @ + 1, !.pc = "sleep15", !.err = "none", !.s = 0,
                         !.expired = FALSE, !.attempt = "quick"]
         ELSE [lp EXCEPT !.retryCount = 0, !.pc = "exhausted", !.err = "none", !.s = 0,
                         !.expired = FALSE, !.attempt = "quick"]

\* the test with the running flag left out
StartsWhileRunning == standby

\* if standByExists && !standByClient.Running.Load()
StartsStandby == standby /\ ~Running["standby"]

\* what the main loop does with the value Stream returned
MainHandle ==
    /\ mode = "grpc"
    /\ loops[0].pc = "handle"
    /\ IF loops[0].err = "killed"
       THEN /\ loops' = [loops EXCEPT ![0] = AfterKilled(@)]
            /\ UNCHANGED fwd
       ELSE \E within \in BOOLEAN :
              LET nx == AfterError(loops[0], within)
              IN  IF nx.pc # "exhausted"
                  THEN loops' = [loops EXCEPT ![0] = nx] /\ UNCHANGED fwd
                  ELSE IF StartsStandby
                       THEN /\ Free # {}
                            /\ loops' = [loops EXCEPT
                                   ![0] = [nx EXCEPT !.pc = "wait"],
                                   ![FirstFree] = [NoLoop EXCEPT !.pc = "call"]]
                            /\ fwd' = [fwd EXCEPT !.start = @ + 1]
                       ELSE /\ loops' = [loops EXCEPT ![0] = [nx EXCEPT !.pc = "wait"]]
                            /\ UNCHANGED fwd
    /\ UNCHANGED <<Kill, killCh, Running, streams, env,
                   cfgVars, certVars, pollVars, daemonVars>>

\* time.Now().Before(startTime.Add(5 * time.Minute)) in a standby loop, whose
\* startTime is taken once, before the loop: what the test can give when the
\* failure came within 5 minutes of the Stream call (quick) or did not. For
\* the first call the two times are the same; later the 5 minutes since
\* startTime are over if they were over before or the call alone took longer
Over(lp, quick) ==
    IF lp.expired THEN {TRUE}
    ELSE IF lp.attempt = "first" THEN {~quick}
    ELSE IF quick THEN BOOLEAN ELSE {TRUE}

\* what a standby loop does with the value Stream returned
StandbyHandle(i) ==
    /\ mode = "grpc"
    /\ loops[i].pc = "handle"
    /\ IF loops[i].err = "killed"
       THEN loops' = [loops EXCEPT ![i] = AfterKilled(@)]
       ELSE \E quick \in BOOLEAN : \E over \in Over(loops[i], quick) :
              LET nx == [AfterError(loops[i], ~over) EXCEPT
                            !.attempt = IF quick THEN "quick" ELSE "slow"]
              IN  loops' = [loops EXCEPT ![i] =
                               IF nx.pc = "exhausted" THEN [nx EXCEPT !.pc = "wait"] ELSE nx]
    /\ UNCHANGED <<Kill, killCh, Running, fwd, streams, env,
                   cfgVars, certVars, pollVars, daemonVars>>

\* time.Sleep(15 * time.Second) is over
BackoffOver(l) ==
    /\ mode = "grpc"
    /\ loops[l].pc = "sleep15"
    /\ loops' = [loops EXCEPT ![l].pc = "call"]
    /\ UNCHANGED <<Kill, killCh, Running, fwd, streams, env,
                   cfgVars, certVars, pollVars, daemonVars>>

\* <-time.After(r.Config.Server.ReconnectDuration)
ReconnectTime(l) ==
    /\ mode = "grpc"
    /\ loops[l].pc = "wait"
    /\ loops' = [loops EXCEPT ![l].pc = "call"]
    /\ UNCHANGED <<Kill, killCh, Running, fwd, streams, env,
                   cfgVars, certVars, pollVars, daemonVars>>

\* case <-kill: return, in the main loop's wait
MainWaitKilled ==
    /\ mode = "grpc"
    /\ loops[0].pc = "wait"
    /\ killCh > 0
    /\ killCh' = killCh - 1
    /\ loops' = [loops EXCEPT ![0].pc = "done"]
    /\ UNCHANGED <<Kill, Running, fwd, streams, env,
                   cfgVars, certVars, pollVars, daemonVars>>

\* the goroutine of line 270 starts: mainClient.Received.Load()
FwdLoad ==
    /\ mode = "grpc"
    /\ fwd.start > 0
    /\ fwd' = [fwd EXCEPT !.start = @ - 1, !.wait = @ + 1]
    /\ UNCHANGED <<Kill, killCh, Running, loops, streams, env,
                   cfgVars, certVars, pollVars, daemonVars>>

\* standByClient.Kill <- (the value received from the closed channel)
FwdSend ==
    /\ mode = "grpc"
    /\ fwd.send > 0
    /\ Kill["standby"] < 1
    /\ Kill' = [Kill EXCEPT !["standby"] = @ + 1]
    /\ fwd' = [fwd EXCEPT !.send = @ - 1]
    /\ UNCHANGED <<killCh, Running, loops, streams, env,
                   cfgVars, certVars, pollVars, daemonVars>>

\* ------------------------------------------------- GRPCMain: the shutdown
\* <-stop (the first SIGINT / SIGTERM), r.stop(), kill <- struct{}{} and
\* mainClient.Kill <- struct{}{}: both channels have capacity 1 and no other
\* sender, so neither send waits
GrpcSignal ==
    /\ mode = "grpc"
    /\ dPc = "waitSignal"
    /\ env.signal > 0
    /\ Stop' = AllStopped
    /\ killCh' = killCh + 1
    /\ Kill' = [Kill EXCEPT !["main"] = @ + 1]
    /\ dPc' = IF standby THEN "killStandby" ELSE "wait"
    /\ UNCHANGED <<Data, UpdateChan, watchPc, calls, applied, Running, loops, fwd, streams,
                   env, cfgVars, pollVars>>

\* if standByClient != nil { standByClient.Kill <- struct{}{} }
KillStandby ==
    /\ mode = "grpc"
    /\ dPc = "killStandby"
    /\ Kill["standby"] < 1
    /\ Kill' = [Kill EXCEPT !["standby"] = @ + 1]
    /\ dPc' = "wait"
    /\ UNCHANGED <<killCh, Running, loops, fwd, streams, env,
                   cfgVars, certVars, pollVars>>

\* r.wg.Wait() returns when the watchers and the main loop are done
GrpcExit ==
    /\ mode = "grpc"
    /\ dPc = "wait"
    /\ loops[0].pc = "done"
    /\ \A c \in Configured : watchPc[c] = "done"
    /\ dPc' = "exit"
    /\ UNCHANGED <<cfgVars, certVars, pollVars, grpcVars>>

\* ------------------------------------------------------------------ init
\* loadSavedCert: nothing on disk, or a saved pair
Saved == {NoMaterial, [chain |-> <<1>>, key |-> <<1>>]}

IdleDog == [pc |-> "idle", mainTries |-> 0, sbTries |-> 0, outcome |-> "none",
            sleepTime |-> DefaultSleep, resp |-> NoMaterial, lastRenew |-> -1]

\* r.init(): one watchingCert and one watch goroutine per certificate
InitCerts(saved) ==
    /\ Data \in [AllCerts -> saved]
    /\ \A c \in AllCerts \ Configured : Data[c] = NoMaterial
    /\ UpdateChan = [c \in AllCerts |-> << >>]
    /\ Stop = [c \in AllCerts |-> FALSE]
    /\ watchPc = [c \in AllCerts |-> IF c \in Configured THEN "run" ELSE "none"]
    /\ calls = [c \in AllCerts |-> << >>]
    /\ applied = [c \in AllCerts |-> << >>]

\* what the environment will do: streams each server accepts, responses each
\* server sends and whether they are all plain ones, times the network breaks
\* an open stream, termination signals the operator sends, standby loops that
\* get started, whether grpc.NewClient rejects a server's configured target,
\* and the certificate names of the responses the main server sends, in order,
\* when that is fixed beforehand
Env(mainOpens, mainResp, sbOpens, sbResp, plain, breaks, signals, slots) ==
    [opens |-> [k \in Clients |-> IF k = "main" THEN mainOpens ELSE sbOpens],
     resp |-> [k \in Clients |-> IF k = "main" THEN mainResp ELSE sbResp],
     plain |-> plain, breaks |-> breaks, signal |-> signals, slots |-> slots,
     badTarget |-> [k \in Clients |-> FALSE], script |-> << >>]

\* MakeCertDXgRPCClient, kill := make(chan struct{}, 1), no stream yet
IdleGrpc ==
    /\ Kill = [k \in Clients |-> 0]
    /\ killCh = 0
    /\ Running = [k \in Clients |-> FALSE]
    /\ fwd = [start |-> 0, wait |-> 0, send |-> 0]
    /\ streams = [s \in StreamIds |-> NoStream]

\* HttpMain up to <-stop
InitHttp ==
    /\ mode = "http"
    /\ certs = <<"A">>
    /\ standby \in BOOLEAN
    /\ RetryCount = HttpRetry
    /\ InitCerts(Saved)
    /\ wd = [c \in AllCerts |->
                IF c \in Configured THEN [IdleDog EXCEPT !.pc = "main"] ELSE IdleDog]
    /\ dPc = "waitSignal"
    /\ IdleGrpc
    /\ loops = [l \in Loops |-> NoLoop]
    /\ env = Env(0, 0, 0, 0, TRUE, 0, 1, 0)

\* GRPCMain up to <-stop, the main loop about to call Stream
StartGrpc ==
    /\ mode = "grpc"
    /\ InitCerts({NoMaterial})
    /\ wd = [c \in AllCerts |-> IdleDog]
    /\ dPc = "waitSignal"
    /\ IdleGrpc
    /\ loops = [l \in Loops |-> IF l = 0 THEN [NoLoop EXCEPT !.pc = "call"] ELSE NoLoop]

\* one server, two certificates
InitGrpc ==
    /\ certs = <<"A", "B">>
    /\ standby = FALSE
    /\ RetryCount = GrpcRetry
    /\ env = Env(GrpcOpens, GrpcResp, 0, 0, FALSE, GrpcBreaks, 1, 0)
    /\ StartGrpc

\* a main and a standby server, one certificate, no termination signal
InitFailover ==
    /\ certs = <<"A">>
    /\ standby = TRUE
    /\ RetryCount = FailoverRetry
    /\ env = Env(FailoverOpens, FailoverResp, FailoverOpens, FailoverResp, TRUE, 0, 0, 1)
    /\ StartGrpc

\* a main server, a standby server that is down, and a termination signal
InitShutdown ==
    /\ certs = <<"A">>
    /\ standby = TRUE
    /\ RetryCount = FailoverRetry
    /\ env = Env(FailoverOpens, FailoverResp, 0, 0, TRUE, 0, 1, 1)
    /\ StartGrpc

\* one server and two certificates; the server has sent StalledResp plain
\* responses, each for A or for B, and the stream stays up
InitStalled ==
    /\ certs = <<"A", "B">>
    /\ standby = FALSE
    /\ RetryCount = GrpcRetry
    /\ \E sc \in [1..StalledResp -> {"A", "B"}] :
          env = [Env(GrpcOpens, StalledResp, 0, 0, TRUE, 0, 0, 0) EXCEPT !.script = sc]
    /\ StartGrpc

\* a main server that is down and a standby server that accepts a stream and
\* sends nothing, as many standby loops as the main loop starts, and a
\* termination signal
InitOutage ==
    /\ certs = <<"A">>
    /\ standby = TRUE
    /\ RetryCount = FailoverRetry
    /\ env = Env(0, 0, FailoverOpens, 0, TRUE, 0, 1, MaxStandby)
    /\ StartGrpc

NextHttp ==
    \/ \E c \in Configured : WatchUpdate(c)
    \/ \E c \in Configured : WatchStop(c)
    \/ \E c \in Configured : PollAttempt(c)
    \/ \E c \in Configured : PollPush(c)
    \/ \E c \in Configured : PollWake(c)
    \/ \E c \in Configured : PollStop(c)
    \/ HttpSignal
    \/ HttpExit

\* Stream, its goroutines and the loop around it
StreamSteps ==
    \/ \E c \in Configured : WatchUpdate(c)
    \/ \E l \in Loops : StreamEnter(l)
    \/ \E l \in Loops : StreamKilled(l)
    \/ \E s \in Opened : RcvTop(s)
    \/ \E s \in Opened : RcvFails(s)
    \/ \E s \in Opened : RcvMsg(s)
    \/ \E s \in Opened, c \in Configured : Dispatch(s, c)
    \/ \E s \in Opened, c \in Configured : HndCtxDone(s, c)
    \/ \E s \in Opened, c \in Configured : HndPush(s, c)
    \/ \E s \in Opened, c \in Configured : AckSend(s, c)
    \/ \E s \in Opened : SndInit(s)
    \/ \E s \in Opened : SndCtxDone(s)
    \/ MainHandle
    \/ \E l \in Loops : BackoffOver(l)
    \/ \E l \in Loops : ReconnectTime(l)

\* a stream that breaks or carries a response the client rejects
FaultSteps ==
    \/ \E s \in Opened : StreamBreak(s)
    \/ \E l \in Loops : StreamCtxDone(l)
    \/ \E l \in Loops : StreamErrRcv(l)
    \/ \E l \in Loops : StreamErrSnd(l)
    \/ \E l \in Loops, c \in Configured : StreamErrHnd(l, c)

\* the standby loops and the goroutines that forward the main client's signal
StandbySteps ==
    \/ \E i \in StandbyLoops : StandbyHandle(i)
    \/ FwdLoad
    \/ FwdSend

\* one server, a network that may break the stream, and the shutdown
NextGrpc ==
    \/ StreamSteps
    \/ FaultSteps
    \/ \E c \in Configured : WatchStop(c)
    \/ MainWaitKilled
    \/ GrpcSignal
    \/ GrpcExit

\* two servers whose streams stay up, no termination signal
NextFailover ==
    \/ StreamSteps
    \/ StandbySteps

\* two servers whose streams stay up, and the shutdown
NextShutdown ==
    \/ StreamSteps
    \/ StandbySteps
    \/ \E c \in Configured : WatchStop(c)
    \/ MainWaitKilled
    \/ GrpcSignal
    \/ KillStandby
    \/ GrpcExit

\* one server whose stream stays up
NextStalled ==
    \/ \E c \in Configured : WatchUpdate(c)
    \/ \E l \in Loops : StreamEnter(l)
    \/ \E s \in Opened : RcvTop(s)
    \/ \E s \in Opened : RcvMsg(s)
    \/ \E s \in Opened, c \in Configured : Dispatch(s, c)
    \/ \E s \in Opened, c \in Configured : HndPush(s, c)
    \/ \E s \in Opened, c \in Configured : AckSend(s, c)
    \/ \E s \in Opened : SndInit(s)
    \/ MainHandle
    \/ \E l \in Loops : BackoffOver(l)
    \/ \E l \in Loops : ReconnectTime(l)

\* no response arrives: the loops, the streams of the standby client and the
\* shutdown
NextOutage ==
    \/ \E l \in Loops : StreamEnter(l)
    \/ \E l \in Loops : StreamKilled(l)
    \/ \E s \in Opened : RcvTop(s)
    \/ \E s \in Opened : RcvFails(s)
    \/ \E s \in Opened, c \in Configured : HndCtxDone(s, c)
    \/ \E s \in Opened : SndInit(s)
    \/ \E s \in Opened : SndCtxDone(s)
    \/ MainHandle
    \/ \E i \in StandbyLoops : StandbyHandle(i)
    \/ \E l \in Loops : BackoffOver(l)
    \/ \E l \in Loops : ReconnectTime(l)
    \/ FwdLoad
    \/ \E c \in Configured : WatchStop(c)
    \/ MainWaitKilled
    \/ GrpcSignal
    \/ KillStandby
    \/ GrpcExit

SpecHttp == InitHttp /\ [][NextHttp]_vars
SpecGrpc == InitGrpc /\ [][NextGrpc]_vars
SpecFailover == InitFailover /\ [][NextFailover]_vars
SpecShutdown == InitShutdown /\ [][NextShutdown]_vars

\* every goroutine that can take a step gets to take it and every timer runs
\* out; what the servers send, and when, is left open
Scheduling ==
    /\ \A c \in AllCerts : WF_vars(WatchUpdate(c))
    /\ \A l \in Loops :
          /\ WF_vars(StreamEnter(l))
          /\ WF_vars(StreamKilled(l))
          /\ WF_vars(BackoffOver(l))
          /\ WF_vars(ReconnectTime(l))
    /\ WF_vars(MainHandle)
    /\ \A i \in StandbyLoops : WF_vars(StandbyHandle(i))
    /\ WF_vars(FwdLoad)
    /\ WF_vars(FwdSend)
    /\ \A s \in StreamIds :
          /\ WF_vars(RcvTop(s))
          /\ WF_vars(RcvFails(s))
          /\ WF_vars(SndInit(s))
          /\ WF_vars(SndCtxDone(s))
          /\ \A c \in AllCerts :
                /\ WF_vars(Dispatch(s, c))
                /\ WF_vars(HndCtxDone(s, c))
                /\ WF_vars(HndPush(s, c))
                /\ WF_vars(AckSend(s, c))

FairFailover == SpecFailover /\ Scheduling

\* the polling daemon: every goroutine that can take a step gets to take it;
\* a select that finds the stop signal closed again and again takes that case
\* in the end
HttpScheduling ==
    /\ \A c \in AllCerts :
          /\ WF_vars(WatchUpdate(c))
          /\ SF_vars(WatchStop(c))
          /\ WF_vars(PollAttempt(c))
          /\ WF_vars(PollPush(c))
          /\ WF_vars(PollWake(c))
          /\ SF_vars(PollStop(c))
    /\ WF_vars(HttpExit)

FairHttp == SpecHttp /\ HttpScheduling

SpecOutage == InitOutage /\ [][NextOutage]_vars

SpecStalled == InitStalled /\ [][NextStalled]_vars

\* the watcher of A may take its time or never run; every other goroutine
\* that can take a step gets to take it, and what the server has sent arrives
StalledScheduling ==
    /\ WF_vars(WatchUpdate("B"))
    /\ \A l \in Loops :
          /\ WF_vars(StreamEnter(l))
          /\ WF_vars(BackoffOver(l))
          /\ WF_vars(ReconnectTime(l))
    /\ WF_vars(MainHandle)
    /\ \A s \in StreamIds :
          /\ WF_vars(RcvTop(s))
          /\ WF_vars(RcvMsg(s))
          /\ WF_vars(SndInit(s))
          /\ \A c \in AllCerts :
                /\ WF_vars(Dispatch(s, c))
                /\ WF_vars(HndPush(s, c))
                /\ WF_vars(AckSend(s, c))

FairStalled == SpecStalled /\ StalledScheduling

\* ------------------------------------------------------------ the watch loop
\* the watch goroutine of c takes the item at the head of its update channel
Takes(c) ==
    /\ watchPc[c] = "run"
    /\ UpdateChan[c] # << >>
    /\ UpdateChan'[c] = Tail(UpdateChan[c])

LastApplied(c) == applied[c][Len(applied[c])]

\* C1: when the watch loop takes material whose chain and key both equal the
\* held chain and key, no update handler is called and the held material
\* stays as it is
C1_IdenticalIsNoOp ==
    [][\A c \in Configured :
          (Takes(c) /\ Head(UpdateChan[c]).chain = Data[c].chain
                    /\ Head(UpdateChan[c]).key = Data[c].key)
          => (calls'[c] = << >> /\ Data'[c] = Data[c])]_vars

\* the watcher has taken material equal to what it held, after holding some
C1_Witness ==
    \E c \in Configured :
        /\ applied[c] # << >>
        /\ ~LastApplied(c)
        /\ calls[c] = << >>
        /\ Data[c] \in Issued

\* C2: when the watch loop takes material whose chain or key differs from the
\* held one, every registered handler is called exactly once, in registration
\* order, with the new chain and key, and the new pair becomes the held one
C2_DifferentIsApplied ==
    [][\A c \in Configured :
          (Takes(c) /\ (\/ Head(UpdateChan[c]).chain # Data[c].chain
                        \/ Head(UpdateChan[c]).key # Data[c].key))
          => /\ Len(calls'[c]) = Len(UpdateHandlers)
             /\ \A i \in 1..Len(UpdateHandlers) :
                   /\ calls'[c][i].handler = UpdateHandlers[i]
                   /\ calls'[c][i].chain = Head(UpdateChan[c]).chain
                   /\ calls'[c][i].key = Head(UpdateChan[c]).key
             /\ Data'[c].chain = Head(UpdateChan[c]).chain
             /\ Data'[c].key = Head(UpdateChan[c]).key]_vars

\* the watcher has replaced held material by material that differs in the key only
C2_Witness ==
    \E c \in Configured :
        /\ Len(applied[c]) = 2
        /\ applied[c][1] /\ applied[c][2]
        /\ Len(calls[c]) = Len(UpdateHandlers)
        /\ Data[c] = [chain |-> <<1>>, key |-> <<2>>]
        /\ calls[c][1].chain = <<1>> /\ calls[c][1].key = <<2>>

\* -------------------------------------------------------- the polling cycle
\* a GetCert call goes to the standby server
AsksStandby(c) == wd'[c].sbTries > wd[c].sbTries

\* the cycle of c ends failed with this step, the standby's budget used up too
StandbyExhausted(c) ==
    /\ wd[c].outcome # "failed"
    /\ wd'[c].outcome = "failed"
    /\ wd'[c].sbTries > 0

\* the standby is asked only when one is configured and every attempt the
\* budget gives the main server has failed
StandbyOnlyAfterMain(c) ==
    AsksStandby(c) => (standby /\ wd[c].mainTries = RetryCount + 1)

\* a cycle that failed puts nothing into the update channel
FailedPushesNothing(c) ==
    (wd[c].outcome = "failed" \/ wd'[c].outcome = "failed")
        => Len(UpdateChan'[c]) <= Len(UpdateChan[c])

\* C9 as stated: in every polling cycle the standby server is contacted only
\* after the main server has used up its retry budget and only if a standby
\* is configured; if the standby uses up its budget too the cycle pushes
\* nothing, and the next cycle starts after the fallback interval of 1 hour
C9_AsStated ==
    [][\A c \in Configured :
          /\ StandbyOnlyAfterMain(c)
          /\ FailedPushesNothing(c)
          /\ StandbyExhausted(c) => wd'[c].sleepTime = DefaultSleep]_vars

\* C9 amended: as stated, except that the next cycle starts after 1 hour only
\* while no cycle has succeeded yet; after a success it starts after a quarter
\* of the renewal time of the last successful response
C9_FailedCycleKeepsInterval ==
    [][\A c \in Configured :
          /\ StandbyOnlyAfterMain(c)
          /\ FailedPushesNothing(c)
          /\ StandbyExhausted(c) =>
                wd'[c].sleepTime = IF wd[c].lastRenew = -1 THEN DefaultSleep
                                   ELSE wd[c].lastRenew \div 4]_vars

\* a cycle has failed on both servers after an earlier cycle got a response
\* with a renewal time of 8 hours
C9_Witness ==
    \E c \in Configured :
        /\ standby
        /\ wd[c].pc = "sleep"
        /\ wd[c].outcome = "failed"
        /\ wd[c].mainTries = RetryCount + 1
        /\ wd[c].sbTries = RetryCount + 1
        /\ wd[c].lastRenew = 480
        /\ wd[c].sleepTime = 120

\* ------------------------------------------------------ the discovery stream
\* the acknowledgments stream s has sent for c: all it sent after the initial
\* request that name c
AcksFor(s, c) == SelectSeq(Tail(streams[s].sent), LAMBDA a : a.names = <<c>>)

\* C3: on every stream, each request sent after the initial one names exactly
\* one certificate, one a response was received for on that stream before,
\* and carries the version of the response that triggered it; none is sent
\* for a name that got no response
C3_AckMatchesResponse ==
    \A s \in Opened :
        streams[s].sent # << >> =>
            /\ streams[s].sent[1] = InitialRequest
            /\ \A i \in 2..Len(streams[s].sent) :
                  /\ Len(streams[s].sent[i].names) = 1
                  /\ streams[s].sent[i].names[1] \in Configured
            /\ \A c \in Configured :
                  /\ Len(AcksFor(s, c)) <= Len(streams[s].got[c])
                  /\ \A k \in 1..Len(AcksFor(s, c)) :
                        AcksFor(s, c)[k].ver = streams[s].got[c][k].ver

\* a stream has acknowledged version v2 for B and then version v1 for A
C3_Witness ==
    \E s \in Opened :
        /\ Len(streams[s].sent) = 3
        /\ streams[s].sent[2] = [names |-> <<"B">>, ver |-> "v2", node |-> FALSE]
        /\ streams[s].sent[3] = [names |-> <<"A">>, ver |-> "v1", node |-> FALSE]
        /\ Len(streams[s].got["A"]) = 1
        /\ Len(streams[s].got["B"]) = 1

\* stream s, the only one opened so far and still up, has received for c
\* exactly two responses with the same chain and key and different versions,
\* both have gone through the handler of c, and the watcher has taken
\* everything pushed to it
TwiceTheSame(s, c) ==
    /\ Opened = {s}
    /\ streams[s].state = "open"
    /\ ~streams[s].ctxDone
    /\ Len(streams[s].got[c]) = 2
    /\ streams[s].got[c][1].mat = streams[s].got[c][2].mat
    /\ streams[s].got[c][1].ver # streams[s].got[c][2].ver
    /\ streams[s].rcv # "dispatch"
    /\ streams[s].hnd[c].pc = "select"
    /\ UpdateChan[c] = << >>
    /\ Len(applied[c]) = 2

Returns(l) == loops[l].pc = "inStream" /\ loops'[l].pc = "handle"

\* nothing of a response under an unknown name is in an update channel or held
NoStrayMaterial ==
    \A c \in Configured :
        /\ Data[c] # StrayMaterial
        /\ \A i \in 1..Len(UpdateChan[c]) : UpdateChan[c][i] # StrayMaterial

\* C4 as stated: when the receiver of a stream has got a response whose
\* secret name is not a configured certificate name, the Stream call ends
\* with the protocol error, and nothing of that response is pushed into any
\* update channel
C4_AsStated ==
    [][/\ \A l \in Loops :
            (Returns(l) /\ streams[loops[l].s].stray) => loops'[l].err = "errCert"
       /\ NoStrayMaterial']_vars

\* another result is ready for the final select of the Stream call of loop l:
\* the stream context has ended, a kill is pending for the client, or the
\* sender or a handler is waiting to report an error
OtherResultReady(l) ==
    \/ streams[loops[l].s].ctxDone
    \/ Kill[ClientOf(l)] > 0
    \/ streams[loops[l].s].snd \in ErrPcs
    \/ \E c \in Configured : streams[loops[l].s].hnd[c].pc \in ErrPcs

\* C4 amended: after such a response the receiver takes no further response
\* and the Stream call, when it returns, returns the protocol error unless
\* another result was ready for its final select (the context ended, a kill,
\* an error of the sender or of a handler); nothing of the response is pushed
C4_UnknownNameEndsReceiver ==
    [][/\ \A l \in Loops :
            (Returns(l) /\ streams[loops[l].s].stray /\ ~OtherResultReady(l))
                => loops'[l].err = "errCert"
       /\ \A s \in Opened :
            streams[s].stray => (streams'[s].stray /\ streams'[s].rcv \in {"errCert", "done"})
       /\ NoStrayMaterial']_vars

\* a Stream call has returned the protocol error for an unknown name
C4_Witness ==
    \E l \in Loops, s \in Opened :
        /\ loops[l].pc = "handle"
        /\ loops[l].err = "errCert"
        /\ loops[l].s = s
        /\ streams[s].stray
        /\ streams[s].rcv = "done"

\* --------------------------------------------------------- the stream loops
\* the main loop handles an error of Stream that is not the killed result
MainFails ==
    /\ loops[0].pc = "handle"
    /\ loops[0].err # "killed"
    /\ loops'[0].pc # "handle"

\* the failure counter once this failure is counted
Counted == IF loops'[0].expired THEN 0 ELSE loops[0].retryCount + 1

\* after the backoff the loop calls Stream, once
BackoffThenCall ==
    (loops[0].pc = "sleep15" /\ loops'[0].pc # "sleep15")
        => (loops'[0].pc = "call" /\ loops'[0].retryCount = loops[0].retryCount)

\* C8 as stated: when Stream returns an error other than killed to the main
\* loop while the failure counter is below the retry budget, the loop makes
\* exactly one new Stream call, and only after the 15 second backoff
C8_AsStated ==
    [][/\ (MainFails /\ Counted < RetryCount) => loops'[0].pc = "sleep15"
       /\ BackoffThenCall]_vars

\* C8 amended: the same, provided the error came within 5 minutes of the
\* start of that Stream call; after 5 minutes the counter is reset and
\* Stream is called again at once, without the backoff
C8_BackoffWithinWindow ==
    [][/\ (MainFails /\ ~loops'[0].expired /\ Counted < RetryCount)
            => (loops'[0].pc = "sleep15" /\ loops'[0].retryCount = Counted)
       /\ (MainFails /\ loops'[0].expired)
            => (loops'[0].pc = "call" /\ loops'[0].retryCount = 0)
       /\ BackoffThenCall]_vars

\* the main loop is about to call Stream again after one counted failure and
\* the backoff
C8_Witness ==
    /\ loops[0].pc = "call"
    /\ loops[0].retryCount = 1
    /\ ~loops[0].expired
    /\ RetryCount > 1

\* loop l handles the killed result of Stream
HandlesKilled(l) ==
    /\ loops[l].pc = "handle"
    /\ loops[l].err = "killed"
    /\ loops'[l].pc # "handle"

\* C7: when Stream returns the killed result to the main loop or to a standby
\* loop, that loop exits at once: no backoff, no change of its failure
\* counter, no standby loop started, no further call of Stream. (A slot of
\* `loops` whose standby loop has exited is taken again only by a standby
\* loop the main loop starts.)
C7_KilledExits ==
    [][/\ \A l \in Loops :
            HandlesKilled(l) =>
                /\ loops'[l].pc = "done"
                /\ loops'[l].retryCount = loops[l].retryCount
                /\ \A j \in Loops \ {l} : loops'[j].pc = loops[j].pc
                /\ fwd' = fwd
       /\ loops[0].pc = "done" => loops'[0].pc = "done"
       /\ \A i \in StandbyLoops :
            (loops[i].pc = "done" /\ loops'[i].pc # "done")
                => (loops[0].pc = "handle" /\ loops'[0].pc = "wait")]_vars

\* both loops have exited on the killed result: the main loop's exit has used
\* the token of mainClient.Kill, not the one of the channel kill
C7_Witness ==
    /\ loops[0].pc = "done"
    /\ Kill["main"] = 0
    /\ killCh = 1
    /\ loops[1].pc = "done"

\* ------------------------------------------------------------- the hand-off
\* the handler of c on stream s pushes into the update channel of c
Pushes(s, c) ==
    /\ streams[s].hnd[c].pc = "push"
    /\ streams'[s].hnd[c].pc = "ack"

\* C5: once the main client's last-received signal has fired after a standby
\* loop was started, no handler of that loop's standby stream pushes any
\* further material into an update channel
C5_NoStandbyPushAfterMainFired ==
    [][\A s \in Opened : \A c \in Configured :
          (streams[s].client = "standby" /\ Pushes(s, c))
              => ~loops[streams[s].loop].fired]_vars

\* C6: whenever a standby loop is running and the main client then receives
\* a message, the standby client is killed and that standby loop exits
C6_MainMessageEndsStandby ==
    \A i \in StandbyLoops : loops[i].fired ~> (loops[i].pc = "done")

\* ------------------------------------------------------------ the shutdown
\* C11: after the first termination signal every stop signal is closed and
\* the drain completes: the watchers and the polling loops terminate and the
\* wait of the daemon returns
C11_DrainCompletes ==
    /\ [](dPc # "waitSignal" => \A c \in Configured : Stop[c])
    /\ (dPc = "wait") ~> (dPc = "exit")

\* ----------------------------------------------- one stream, two certificates
\* the responses for c among those the server has sent
SentFor(c) == SelectSeq(env.script, LAMBDA n : n = c)

\* the number of acknowledgments stream s has sent for c
Acked(s, c) == IF streams[s].sent = << >> THEN 0 ELSE Len(AcksFor(s, c))

\* C12: on a stream with the certificates A and B, whatever the watcher of A
\* does (it may never drain A's update channel, so that the handler of A is
\* blocked), every response for B the server has sent is dispatched to the
\* handler of B, pushed and acknowledged
C12_SlowConsumerBlocksNoOther ==
    \A s \in StreamIds :
        (streams[s].state = "open") ~> (Acked(s, "B") = Len(SentFor("B")))

\* --------------------------------------------------- the start of Stream
\* loop l calls Stream with this step
Calls(l) == loops[l].pc = "call" /\ loops'[l].pc # "call"

\* C13: when a kill is pending on the client's kill channel as Stream is
\* called, the call takes that kill and returns the killed result: the client
\* is not marked running, no connection or stream is opened and no request
\* is sent
C13_PendingKillHonored ==
    [][\A l \in Loops :
          (Calls(l) /\ Kill[ClientOf(l)] > 0) =>
              /\ loops'[l].pc = "handle"
              /\ loops'[l].err = "killed"
              /\ Kill'[ClientOf(l)] = Kill[ClientOf(l)] - 1
              /\ Running' = Running
              /\ streams' = streams
              /\ env' = env]_vars

\* the main loop holds the killed result of a Stream call although the main
\* client never opened a stream: the kill was pending when Stream was called
C13_Witness ==
    /\ loops[0].pc = "handle"
    /\ loops[0].err = "killed"
    /\ \A s \in Opened : streams[s].client # "main"
    /\ ~Running["main"]
    /\ Kill["main"] = 0

\* ------------------------------------------------------------- the sender
\* stream s sends one more message with this step
SendsOne(s) ==
    /\ Len(streams'[s].sent) = Len(streams[s].sent) + 1
    /\ SubSeq(streams'[s].sent, 1, Len(streams[s].sent)) = streams[s].sent

\* the message stream s sends with this step
JustSent(s) == streams'[s].sent[Len(streams'[s].sent)]

\* C14: on every stream the first message sent is the initial request, it
\* names all configured certificates in order and is sent once; every later
\* message is the acknowledgment a handler was handing to the sender, and the
\* messages go out one at a time, none overtaking another
C14_InitialThenAcks ==
    [][\A s \in StreamIds :
          /\ \/ streams'[s].sent = streams[s].sent
             \/ SendsOne(s)
             \/ streams'[s].sent = << >> /\ streams'[s].state = "returned"
          /\ (SendsOne(s) /\ streams[s].sent = << >>) =>
                /\ streams[s].snd = "init"
                /\ streams'[s].snd # "init"
                /\ JustSent(s).node
                /\ JustSent(s).names = certs
          /\ (SendsOne(s) /\ streams[s].sent # << >>) =>
                /\ ~JustSent(s).node
                /\ \E c \in Configured :
                      /\ streams[s].hnd[c].pc = "ack"
                      /\ streams'[s].hnd[c].pc # "ack"
                      /\ JustSent(s).names = <<c>>
                      /\ JustSent(s).ver = streams[s].hnd[c].ver]_vars

\* a stream has sent its initial request for A and B and then the
\* acknowledgments for A and for B, in that order
C14_Witness ==
    \E s \in Opened :
        /\ Len(streams[s].sent) = 3
        /\ streams[s].sent[1].node /\ streams[s].sent[1].names = <<"A", "B">>
        /\ ~streams[s].sent[2].node /\ streams[s].sent[2].names = <<"A">>
        /\ ~streams[s].sent[3].node /\ streams[s].sent[3].names = <<"B">>

\* ------------------------------------------------ the main loop's counter
\* no standby loop and no forwarding goroutine is started with this step
StartsNothing ==
    /\ fwd' = fwd
    /\ \A i \in StandbyLoops : loops'[i].pc = loops[i].pc

\* C15: the main loop's failure counter goes up only by one and only for a
\* failure other than killed that comes within 5 minutes of the start of the
\* attempt; such a failure after the 5 minutes sets the counter to zero and
\* the loop calls Stream again at once: no comparison with the budget (no
\* backoff, no reconnect wait) and no standby loop started
C15_WindowGovernsCounter ==
    [][/\ loops'[0].retryCount > loops[0].retryCount =>
            /\ MainFails
            /\ ~loops'[0].expired
            /\ loops'[0].retryCount = loops[0].retryCount + 1
       /\ (MainFails /\ loops'[0].expired) =>
            /\ loops'[0].retryCount = 0
            /\ loops'[0].pc = "call"
            /\ StartsNothing
       /\ HandlesKilled(0) => loops'[0].retryCount = loops[0].retryCount]_vars

\* the main loop is about to call Stream again after a failure that came
\* after the 5 minutes, a standby server being configured and not running
C15_Witness ==
    /\ loops[0].pc = "call"
    /\ loops[0].expired
    /\ loops[0].retryCount = 0
    /\ standby
    /\ ~Running["standby"]
    /\ \A i \in StandbyLoops : loops[i].pc = "none"

\* ------------------------------------------------- the start of a standby
\* a standby loop is started with this step
StandbyStarted ==
    \E i \in StandbyLoops :
        loops[i].pc \in {"none", "done"} /\ loops'[i].pc \notin {"none", "done"}

\* the main loop counts a failure that brings its counter to the retry budget
Exhausts ==
    /\ MainFails
    /\ ~loops'[0].expired
    /\ loops[0].retryCount + 1 >= RetryCount

\* C16: a standby loop is started only by the step in which the main loop's
\* failure counter reaches the retry budget, and only if a standby server is
\* configured and the standby client is not running; in that step, standby
\* started or not, the counter is set to zero and the loop enters the
\* reconnect wait, which it leaves only to call Stream when the interval is
\* over or to return on a kill
C16_StandbyOnlyOnExhaustion ==
    [][/\ StandbyStarted => (Exhausts /\ standby /\ ~Running["standby"])
       /\ Exhausts => (loops'[0].retryCount = 0 /\ loops'[0].pc = "wait")
       /\ (loops[0].pc = "wait" /\ loops'[0].pc # "wait") =>
             \/ loops'[0].pc = "call" /\ killCh' = killCh
             \/ loops'[0].pc = "done" /\ killCh > 0 /\ killCh' = killCh - 1]_vars

\* the main loop is in its reconnect wait with the counter at zero and the
\* standby client has a stream up: no second standby loop has been started
C16_Witness ==
    /\ loops[0].pc = "wait"
    /\ loops[0].retryCount = 0
    /\ Running["standby"]
    /\ loops[1].pc = "inStream"
    /\ \A i \in StandbyLoops \ {1} : loops[i].pc = "none"

\* ------------------------------------------- the producers of update channels
\* C17: no producer stays blocked in its send into an update channel: a
\* polling loop that has material to push, and a stream handler that has,
\* gets past the send, also when the watcher has stopped or the stream ended
C17_PushNeverBlocksForever ==
    /\ \A c \in AllCerts : (wd[c].pc = "push") ~> (wd[c].pc # "push")
    /\ \A s \in StreamIds : \A c \in AllCerts :
          (streams[s].hnd[c].pc = "push") ~> (streams[s].hnd[c].pc # "push")

\* ------------------------------------------------- the standby loop's window
\* standby loop i handles an error of Stream that is not the killed result
StandbyFails(i) ==
    /\ loops[i].pc = "handle"
    /\ loops[i].err # "killed"
    /\ loops'[i].pc # "handle"

\* C18: in a standby loop, as in the main loop, a failure other than killed
\* that comes within 5 minutes of the start of its own Stream call is
\* counted, however long the loop has been running: below the budget the
\* counter goes up by one and the 15 second backoff follows, at the budget
\* the loop goes into the reconnect wait
C18_StandbyWindowPerAttempt ==
    [][\A i \in StandbyLoops :
          (StandbyFails(i) /\ loops'[i].attempt = "quick") =>
              IF loops[i].retryCount + 1 < RetryCount
              THEN /\ loops'[i].retryCount = loops[i].retryCount + 1
                   /\ loops'[i].pc = "sleep15"
              ELSE /\ loops'[i].retryCount = 0
                   /\ loops'[i].pc = "wait"]_vars

\* --------------------------------------------------- one standby at a time
\* the standby loops that have been started and have not exited
LiveStandby == {i \in StandbyLoops : loops[i].pc \notin {"none", "done"}}

\* C19: at every instant at most one standby loop exists: the main loop
\* starts no second one while an earlier one has not exited, also while that
\* one is between two Stream calls
C19_AtMostOneStandbyLoop == Cardinality(LiveStandby) <= 1

\* ------------------------------------------------ the goroutines of a stream
\* the receiver, the sender and every handler of stream s have returned
AllGone(s) ==
    /\ streams[s].rcv = "done"
    /\ streams[s].snd = "done"
    /\ \A c \in Configured : streams[s].hnd[c].pc = "done"

\* C20: after a Stream call has returned, the receiver, the sender and every
\* handler it started terminate
C20_StreamGoroutinesEnd ==
    \A s \in StreamIds : (streams[s].state = "returned") ~> AllGone(s)

====
